---- MODULE Spec2Model ----
(***************************************************************************)
(* Model of the heapless Base64 encoder and decoder of src/src/lib.rs.     *)
(*                                                                         *)
(* Bytes and characters are integers 0..255 (characters by their ASCII     *)
(* code).  An Option<u8> is the byte, or None.  The state holds one        *)
(* Base64Encoder and one Base64Decoder together with what their caller     *)
(* has collected from them (the Vec/String the tests collect into).        *)
(***************************************************************************)
EXTENDS Integers, Sequences, FiniteSets, TLC

VARIABLES
    enc_active,   \* a Base64Encoder has been constructed
    enc,          \* the Base64Encoder: input, off (position of input: Chunks), output
    enc_ret,      \* what the last Base64Encoder::next() returned
    enc_out,      \* the characters the caller has pulled so far
    enc_ended,    \* Base64Encoder::next() has returned None at least once
    dec_active,   \* a Base64Decoder has been constructed
    dec,          \* the Base64Decoder: input, off, output, status
    dec_ret,      \* what the last Base64Decoder::next() returned
    dec_out,      \* the bytes the caller has pulled so far
    dec_ended     \* Base64Decoder::next() has returned None at least once

enc_vars == <<enc_active, enc, enc_ret, enc_out, enc_ended>>
dec_vars == <<dec_active, dec, dec_ret, dec_out, dec_ended>>
vars == <<enc_vars, dec_vars>>

----------------------------------------------------------------------------
(* Bounds of the explored inputs.                                          *)

\* longest encoder input drawn from EncBytes
MaxEncLen == 4
\* longest decoder text drawn from TextChars
MaxTextLen == 5
\* most chunks in a decoder text built from TextChunks
MaxChunks == 2

----------------------------------------------------------------------------
(* Option<u8> and Base64Result.                                            *)

\* Option::None of an Option<u8>
None == 0 - 1
\* no call of next() has been made yet
NoCall == 0 - 2

Ok == "Ok"
Err == "Err"

Min(a, b) == IF a < b THEN a ELSE b

----------------------------------------------------------------------------
(* Machine arithmetic.                                                     *)

RECURSIVE Pow2(_)
Pow2(n) == IF n = 0 THEN 1 ELSE 2 * Pow2(n - 1)

\* a | b on unsigned integers
RECURSIVE BitOr(_, _)
BitOr(a, b) ==
    IF a = 0 THEN b
    ELSE IF b = 0 THEN a
    ELSE (IF a % 2 = 1 \/ b % 2 = 1 THEN 1 ELSE 0)
         + 2 * BitOr(a \div 2, b \div 2)

\* a & b on unsigned integers
RECURSIVE BitAnd(_, _)
BitAnd(a, b) ==
    IF a = 0 \/ b = 0 THEN 0
    ELSE (IF a % 2 = 1 /\ b % 2 = 1 THEN 1 ELSE 0)
         + 2 * BitAnd(a \div 2, b \div 2)

\* Shl8 without the truncation to 8 bits
Shl8_untruncated(a, n) == a * Pow2(n)

\* a << n on u8: the bits shifted past bit 7 are lost
Shl8(a, n) == (a * Pow2(n)) % 256
\* a << n on u32, for a u8 widened to u32 and n <= 16: the result is below
\* 2^24, so no bit leaves the 32-bit word
Shl32(a, n) == a * Pow2(n)
\* a >> n
Shr(a, n) == a \div Pow2(n)
\* x as u8
AsU8(x) == x % 256

----------------------------------------------------------------------------
(* core::slice::Chunks over a slice v, off bytes of which are taken.       *)

\* Chunks::next(): the next chunk of at most size bytes, if any is left
Chunks_next(v, off, size) ==
    IF off >= Len(v)
      THEN [some |-> FALSE, chunk |-> <<>>, off |-> off]
      ELSE [some |-> TRUE,
            chunk |-> SubSeq(v, off + 1, Min(off + size, Len(v))),
            off |-> Min(off + size, Len(v))]

----------------------------------------------------------------------------
(* Encoder.                                                                *)

\* the marker of the unreachable!() arm
Unreachable == 0 - 3

\* combine_bytes with the second byte shifted like the first
combine_bytes_same_shift(bytes) ==
    BitOr(BitOr(BitOr(0,
        IF Len(bytes) >= 1 THEN Shl32(bytes[1], 16) ELSE 0),
        IF Len(bytes) >= 2 THEN Shl32(bytes[2], 16) ELSE 0),
        IF Len(bytes) >= 3 THEN Shl32(bytes[3], 0) ELSE 0)

combine_bytes(bytes) ==
    BitOr(BitOr(BitOr(0,
        IF Len(bytes) >= 1 THEN Shl32(bytes[1], 16) ELSE 0),
        IF Len(bytes) >= 2 THEN Shl32(bytes[2], 8) ELSE 0),
        IF Len(bytes) >= 3 THEN Shl32(bytes[3], 0) ELSE 0)

\* encode_sextet with the lower-case arm off by one: 51 maps past 'z'
encode_sextet_off_by_one(u) ==
    IF u >= 0 /\ u <= 25 THEN 65 + u
    ELSE IF u >= 26 /\ u <= 51 THEN 97 + u - 25
    ELSE IF u >= 52 /\ u <= 61 THEN 48 + u - 52
    ELSE IF u = 62 THEN 43
    ELSE IF u = 63 THEN 47
    ELSE Unreachable

\* the match of encode_chunk on the 6-bit value u
encode_sextet(u) ==
    IF u >= 0 /\ u <= 25 THEN 65 + u
    ELSE IF u >= 26 /\ u <= 51 THEN 97 + u - 26
    ELSE IF u >= 52 /\ u <= 61 THEN 48 + u - 52
    ELSE IF u = 62 THEN 43
    ELSE IF u = 63 THEN 47
    ELSE Unreachable

\* the u8 results of the arm encode_chunk takes for u, in the order they are
\* computed: b'a' + u - 26 is (b'a' + u) - 26
encode_sextet_steps(u) ==
    IF u >= 0 /\ u <= 25 THEN <<65 + u>>
    ELSE IF u >= 26 /\ u <= 51 THEN <<97 + u, (97 + u) - 26>>
    ELSE IF u >= 52 /\ u <= 61 THEN <<48 + u, (48 + u) - 52>>
    ELSE <<>>

\* the shifts encode_chunk iterates over
encode_shifts == <<18, 12, 6, 0>>

\* the four 6-bit values encode_chunk matches on
encode_sextets(chunk) ==
    [i \in 1..4 |->
        BitAnd(AsU8(Shr(combine_bytes(chunk), encode_shifts[i])), 63)]

\* encode_chunk masking with 0b0111_1111: 7 bits reach the match
encode_chunk_wide_mask(chunk, output) ==
    LET combined == combine_bytes(chunk)
        b0 == [i \in 1..4 |->
                 encode_sextet(BitAnd(AsU8(Shr(combined, encode_shifts[i])), 127))]
        b1 == IF Len(chunk) <= 1 THEN [b0 EXCEPT ![3] = 61] ELSE b0
        b2 == IF Len(chunk) <= 2 THEN [b1 EXCEPT ![4] = 61] ELSE b1
    IN  [buffer |-> b2, idx |-> 0]

\* encode_chunk padding position 2 only for an empty chunk (< 1 for <= 1)
encode_chunk_short_pad(chunk, output) ==
    LET combined == combine_bytes(chunk)
        b0 == [i \in 1..4 |->
                 encode_sextet(BitAnd(AsU8(Shr(combined, encode_shifts[i])), 63))]
        b1 == IF Len(chunk) < 1 THEN [b0 EXCEPT ![3] = 61] ELSE b0
        b2 == IF Len(chunk) <= 2 THEN [b1 EXCEPT ![4] = 61] ELSE b1
    IN  [buffer |-> b2, idx |-> 0]

\* encode_chunk(chunk, output): the EncodeIterator it leaves behind
encode_chunk(chunk, output) ==
    LET combined == combine_bytes(chunk)
        b0 == [i \in 1..4 |->
                 encode_sextet(BitAnd(AsU8(Shr(combined, encode_shifts[i])), 63))]
        b1 == IF Len(chunk) <= 1 THEN [b0 EXCEPT ![3] = 61] ELSE b0
        b2 == IF Len(chunk) <= 2 THEN [b1 EXCEPT ![4] = 61] ELSE b1
    IN  [buffer |-> b2, idx |-> 0]

\* EncodeIterator::next ending one unit early (< len - 1 for < len)
EncodeIterator_next_short(output) ==
    IF output.idx < Len(output.buffer) - 1
      THEN [ret |-> output.buffer[output.idx + 1],
            output |-> [output EXCEPT !.idx = output.idx + 1]]
      ELSE [ret |-> None, output |-> output]

\* EncodeIterator::next without "self.idx += 1"
EncodeIterator_next_no_advance(output) ==
    IF output.idx < Len(output.buffer)
      THEN [ret |-> output.buffer[output.idx + 1], output |-> output]
      ELSE [ret |-> None, output |-> output]

\* EncodeIterator::next(): buffer[idx - 1] after idx += 1 (0-based) is
\* element idx + 1 of the 1-based sequence, idx being the old cursor
EncodeIterator_next(output) ==
    IF output.idx < Len(output.buffer)
      THEN [ret |-> output.buffer[output.idx + 1],
            output |-> [output EXCEPT !.idx = output.idx + 1]]
      ELSE [ret |-> None, output |-> output]

\* Base64Encoder::new with the staging cursor at 0: the zeroed buffer
\* counts as staged output
Base64Encoder_new_idx0(input) ==
    [input |-> input, off |-> 0,
     output |-> [buffer |-> <<0, 0, 0, 0>>, idx |-> 0]]

\* Base64Encoder::new(input)
Base64Encoder_new(input) ==
    [input |-> input, off |-> 0,
     output |-> [buffer |-> <<0, 0, 0, 0>>, idx |-> 4]]

\* Base64Encoder::next(): the value returned and the encoder afterwards
Base64Encoder_step(self) ==
    LET o1 == EncodeIterator_next(self.output)
    IN  IF o1.ret # None
          THEN [ret |-> o1.ret, self |-> [self EXCEPT !.output = o1.output]]
          ELSE LET c == Chunks_next(self.input, self.off, 3)
               IN  IF c.some
                     THEN LET o2 == EncodeIterator_next(
                                        encode_chunk(c.chunk, self.output))
                          IN  [ret |-> o2.ret,
                               self |-> [self EXCEPT !.off = c.off,
                                                     !.output = o2.output]]
                     ELSE [ret |-> None, self |-> [self EXCEPT !.off = c.off]]

----------------------------------------------------------------------------
(* Decoder.                                                                *)

\* enum Decoded
Value(v) == [tag |-> "Value", v |-> v]
Padding == [tag |-> "Padding", v |-> 0]
Invalid == [tag |-> "Invalid", v |-> 0]

\* decode_symbol with the digit arm off by one (+ 3 for + 4)
decode_symbol_digit_off(value) ==
    IF value >= 65 /\ value <= 90 THEN Value(value - 65)
    ELSE IF value >= 97 /\ value <= 122 THEN Value(value - 71)
    ELSE IF value >= 48 /\ value <= 57 THEN Value(value + 3)
    ELSE IF value = 43 \/ value = 45 THEN Value(62)
    ELSE IF value = 47 \/ value = 95 THEN Value(63)
    ELSE IF value = 61 THEN Padding
    ELSE Invalid

\* decode_symbol taking '-' for '/' as well: both URL-safe characters map
\* to 63
decode_symbol_url_swapped(value) ==
    IF value >= 65 /\ value <= 90 THEN Value(value - 65)
    ELSE IF value >= 97 /\ value <= 122 THEN Value(value - 71)
    ELSE IF value >= 48 /\ value <= 57 THEN Value(value + 4)
    ELSE IF value = 43 THEN Value(62)
    ELSE IF value = 47 \/ value = 95 \/ value = 45 THEN Value(63)
    ELSE IF value = 61 THEN Padding
    ELSE Invalid

\* the match of decode_chunk on one input byte
decode_symbol(value) ==
    IF value >= 65 /\ value <= 90 THEN Value(value - 65)
    ELSE IF value >= 97 /\ value <= 122 THEN Value(value - 71)
    ELSE IF value >= 48 /\ value <= 57 THEN Value(value + 4)
    ELSE IF value = 43 \/ value = 45 THEN Value(62)
    ELSE IF value = 47 \/ value = 95 THEN Value(63)
    ELSE IF value = 61 THEN Padding
    ELSE Invalid

\* decode_symbol_steps with the upper-case arm subtracting 0x47 like the
\* lower-case arm
decode_symbol_steps_arms_confused(value) ==
    IF value >= 65 /\ value <= 90 THEN <<value - 71>>
    ELSE IF value >= 97 /\ value <= 122 THEN <<value - 71>>
    ELSE IF value >= 48 /\ value <= 57 THEN <<value + 4>>
    ELSE <<>>

\* the u8 result of the addition or subtraction in the arm decode_chunk
\* takes for an input byte
decode_symbol_steps(value) ==
    IF value >= 65 /\ value <= 90 THEN <<value - 65>>
    ELSE IF value >= 97 /\ value <= 122 THEN <<value - 71>>
    ELSE IF value >= 48 /\ value <= 57 THEN <<value + 4>>
    ELSE <<>>

\* the classification array tmp of decode_chunk: Invalid where the chunk
\* has no byte
decode_tmp(chunk) ==
    [i \in 1..4 |-> IF i <= Len(chunk) THEN decode_symbol(chunk[i]) ELSE Invalid]

\* decode_reject without the check of position 2 against position 3
decode_reject_no_suffix_check(tmp) ==
    IF \E i \in 1..4 : tmp[i] = Invalid THEN TRUE
    ELSE IF tmp[1] = Padding \/ tmp[2] = Padding THEN TRUE
    ELSE FALSE

\* decode_reject looking for Invalid at positions 0 and 1 only
decode_reject_first_two(tmp) ==
    IF \E i \in 1..2 : tmp[i] = Invalid THEN TRUE
    ELSE IF tmp[1] = Padding \/ tmp[2] = Padding THEN TRUE
    ELSE IF tmp[3] = Padding /\ tmp[4] # Padding THEN TRUE
    ELSE FALSE

\* decode_reject refusing a padded chunk whose unused low bits are not zero
decode_reject_strict(tmp) ==
    IF \E i \in 1..4 : tmp[i] = Invalid THEN TRUE
    ELSE IF tmp[1] = Padding \/ tmp[2] = Padding THEN TRUE
    ELSE IF tmp[3] = Padding /\ tmp[4] # Padding THEN TRUE
    ELSE IF tmp[3] = Padding /\ tmp[2].v % 16 # 0 THEN TRUE
    ELSE IF tmp[3] # Padding /\ tmp[4] = Padding /\ tmp[3].v % 4 # 0 THEN TRUE
    ELSE FALSE

\* the three early returns of decode_chunk: a missing or rejected byte,
\* padding at position 0 or 1, padding at position 2 but not at position 3
decode_reject(tmp) ==
    IF \E i \in 1..4 : tmp[i] = Invalid THEN TRUE
    ELSE IF tmp[1] = Padding \/ tmp[2] = Padding THEN TRUE
    ELSE IF tmp[3] = Padding /\ tmp[4] # Padding THEN TRUE
    ELSE FALSE

\* the byte reconstruction of decode_chunk: each pair of neighbouring Values
\* writes one byte of the buffer and sets len; idx is reset at the end
decode_bytes(tmp, output) ==
    LET o1 == IF tmp[1].tag = "Value" /\ tmp[2].tag = "Value"
                THEN [output EXCEPT
                        !.buffer[1] = BitOr(Shl8(tmp[1].v, 2),
                                            BitAnd(Shr(tmp[2].v, 4), 3)),
                        !.len = 1]
                ELSE output
        o2 == IF tmp[2].tag = "Value" /\ tmp[3].tag = "Value"
                THEN [o1 EXCEPT
                        !.buffer[2] = BitOr(Shl8(tmp[2].v, 4),
                                            BitAnd(Shr(tmp[3].v, 2), 15)),
                        !.len = 2]
                ELSE o1
        o3 == IF tmp[3].tag = "Value" /\ tmp[4].tag = "Value"
                THEN [o2 EXCEPT
                        !.buffer[3] = BitOr(Shl8(tmp[3].v, 6),
                                            BitAnd(Shr(tmp[4].v, 0), 63)),
                        !.len = 3]
                ELSE o2
    IN  [o3 EXCEPT !.idx = 0]

\* decode_chunk(chunk, output): the result and the DecodeIterator afterwards
decode_chunk(chunk, output) ==
    LET tmp == decode_tmp(chunk)
    IN  IF decode_reject(tmp)
          THEN [result |-> Err, output |-> output]
          ELSE [result |-> Ok, output |-> decode_bytes(tmp, output)]

\* DecodeIterator::next without "self.idx += 1"
DecodeIterator_next_no_advance(output) ==
    IF output.idx < output.len
      THEN [ret |-> output.buffer[output.idx + 1], output |-> output]
      ELSE [ret |-> None, output |-> output]

\* DecodeIterator::next()
DecodeIterator_next(output) ==
    IF output.idx < output.len
      THEN [ret |-> output.buffer[output.idx + 1],
            output |-> [output EXCEPT !.idx = output.idx + 1]]
      ELSE [ret |-> None, output |-> output]

\* Base64Decoder::new starting with an error status
Base64Decoder_new_err(input) ==
    [input |-> input, off |-> 0,
     output |-> [buffer |-> <<0, 0, 0>>, idx |-> 3, len |-> 0],
     status |-> Err]

\* Base64Decoder::new(input)
Base64Decoder_new(input) ==
    [input |-> input, off |-> 0,
     output |-> [buffer |-> <<0, 0, 0>>, idx |-> 3, len |-> 0],
     status |-> Ok]

\* Base64Decoder::status()
Base64Decoder_status(self) == self.status

\* Base64Decoder::next treating a padded chunk as the end of the text: no
\* chunk is taken after a chunk that staged fewer than 3 bytes
Base64Decoder_step_pad_ends(self) ==
    LET o1 == DecodeIterator_next(self.output)
    IN  IF o1.ret # None
          THEN [ret |-> o1.ret, self |-> [self EXCEPT !.output = o1.output]]
          ELSE LET c == Chunks_next(self.input, self.off, 4)
               IN  IF c.some /\ self.output.len \notin {1, 2}
                     THEN LET d == decode_chunk(c.chunk, self.output)
                              o2 == DecodeIterator_next(d.output)
                          IN  IF d.result = Ok
                                THEN [ret |-> o2.ret,
                                      self |-> [self EXCEPT !.off = c.off,
                                                            !.output = o2.output,
                                                            !.status = d.result]]
                                ELSE [ret |-> None,
                                      self |-> [self EXCEPT !.off = c.off,
                                                            !.output = d.output,
                                                            !.status = d.result]]
                     ELSE [ret |-> None, self |-> self]

\* Base64Decoder::next keeping an error once set: the status is the
\* chunk's result only while it is Ok
Base64Decoder_step_sticky(self) ==
    LET o1 == DecodeIterator_next(self.output)
    IN  IF o1.ret # None
          THEN [ret |-> o1.ret, self |-> [self EXCEPT !.output = o1.output]]
          ELSE LET c == Chunks_next(self.input, self.off, 4)
               IN  IF c.some
                     THEN LET d == decode_chunk(c.chunk, self.output)
                              o2 == DecodeIterator_next(d.output)
                              st == IF self.status = Err THEN Err ELSE d.result
                          IN  IF st = Ok
                                THEN [ret |-> o2.ret,
                                      self |-> [self EXCEPT !.off = c.off,
                                                            !.output = o2.output,
                                                            !.status = st]]
                                ELSE [ret |-> None,
                                      self |-> [self EXCEPT !.off = c.off,
                                                            !.output = d.output,
                                                            !.status = st]]
                     ELSE [ret |-> None, self |-> [self EXCEPT !.off = c.off]]

\* Base64Decoder::next(): the value returned and the decoder afterwards
Base64Decoder_step(self) ==
    LET o1 == DecodeIterator_next(self.output)
    IN  IF o1.ret # None
          THEN [ret |-> o1.ret, self |-> [self EXCEPT !.output = o1.output]]
          ELSE LET c == Chunks_next(self.input, self.off, 4)
               IN  IF c.some
                     THEN LET d == decode_chunk(c.chunk, self.output)
                              o2 == DecodeIterator_next(d.output)
                          IN  IF d.result = Ok
                                THEN [ret |-> o2.ret,
                                      self |-> [self EXCEPT !.off = c.off,
                                                            !.output = o2.output,
                                                            !.status = d.result]]
                                ELSE [ret |-> None,
                                      self |-> [self EXCEPT !.off = c.off,
                                                            !.output = d.output,
                                                            !.status = d.result]]
                     ELSE [ret |-> None, self |-> [self EXCEPT !.off = c.off]]

\* the caller's loop "while let Some(_) = decoder.next() { }" followed by
\* status(): the bytes delivered before the first None and the status then
RECURSIVE DrainFrom(_, _)
DrainFrom(self, out) ==
    LET r == Base64Decoder_step(self)
    IN  IF r.ret = None
          THEN [out |-> out, status |-> Base64Decoder_status(r.self)]
          ELSE DrainFrom(r.self, Append(out, r.ret))

DrainDecoder(text) == DrainFrom(Base64Decoder_new(text), <<>>)

----------------------------------------------------------------------------
(* The inputs explored.                                                    *)

\* all sequences over S of length at most n
SeqsUpTo(S, n) == UNION {[1..k -> S] : k \in 0..n}

\* bytes of the encoder inputs: 0, '?', 'f', 'o', 0xFB, 0xFF
EncBytes == {0, 63, 102, 111, 251, 255}

\* the inputs of test_encoder_basic: "", f, fo, foo, foob, fooba, foobar
KnownInputs ==
    {<<>>, <<102>>, <<102, 111>>, <<102, 111, 111>>, <<102, 111, 111, 98>>,
     <<102, 111, 111, 98, 97>>, <<102, 111, 111, 98, 97, 114>>}

\* every single byte, and every byte at each position of a full chunk
ByteSweep ==
    {<<b>> : b \in 0..255} \cup {<<b, 255 - b, b>> : b \in 0..255}

EncInputs == SeqsUpTo(EncBytes, MaxEncLen) \cup KnownInputs \cup ByteSweep

\* characters of the free decoder texts: '$', '-', '=', 'Z', 'g'
TextChars == {36, 45, 61, 90, 103}

\* characters of the single chunks: the ends of every accepted range, both
\* spellings of 62 and 63, padding and a rejected byte
ChunkChars == {65, 90, 97, 122, 48, 57, 43, 45, 47, 95, 61, 36}

\* chunks the longer texts are built from: Zm9v Zg== Zm8= Z-_/ (valid),
\* Zm$= Z=== Zm=v (invalid), Zg (ragged)
TextChunks ==
    {<<90, 109, 57, 118>>, <<90, 103, 61, 61>>, <<90, 109, 56, 61>>,
     <<90, 45, 95, 47>>, <<90, 109, 36, 61>>, <<90, 61, 61, 61>>,
     <<90, 109, 61, 118>>, <<90, 103>>}

RECURSIVE Flatten(_)
Flatten(ss) == IF ss = <<>> THEN <<>> ELSE Head(ss) \o Flatten(Tail(ss))

DecInputs ==
    SeqsUpTo(TextChars, MaxTextLen)
    \cup [1..4 -> ChunkChars]
    \cup {Flatten(cs) : cs \in SeqsUpTo(TextChunks, MaxChunks)}
    \cup {<<90, 103, 61, 61, 36>>, <<90, 104, 61, 61>>}

----------------------------------------------------------------------------
(* The state machine: a caller that encodes and then decodes what it       *)
(* collected (test_base64_random), or decodes a given text                 *)
(* (test_decoder_basic, test_decoder_invalid).                             *)

NoEncoder == Base64Encoder_new(<<>>)
NoDecoder == Base64Decoder_new(<<>>)

InitEncode ==
    /\ \E input \in EncInputs : enc = Base64Encoder_new(input)
    /\ enc_active = TRUE
    /\ dec = NoDecoder
    /\ dec_active = FALSE
    /\ enc_ret = NoCall /\ enc_out = <<>> /\ enc_ended = FALSE
    /\ dec_ret = NoCall /\ dec_out = <<>> /\ dec_ended = FALSE

InitDecode ==
    /\ \E input \in DecInputs : dec = Base64Decoder_new(input)
    /\ dec_active = TRUE
    /\ enc = NoEncoder
    /\ enc_active = FALSE
    /\ enc_ret = NoCall /\ enc_out = <<>> /\ enc_ended = FALSE
    /\ dec_ret = NoCall /\ dec_out = <<>> /\ dec_ended = FALSE

Init == InitEncode \/ InitDecode

\* the caller pulls one character from the encoder
Base64Encoder_next ==
    /\ enc_active
    /\ LET r == Base64Encoder_step(enc)
       IN  /\ enc' = r.self
           /\ enc_ret' = r.ret
           /\ enc_out' = IF r.ret # None THEN Append(enc_out, r.ret) ELSE enc_out
           /\ enc_ended' = (enc_ended \/ r.ret = None)
    /\ UNCHANGED <<enc_active, dec_vars>>

\* the caller constructs a decoder over what it collected from the encoder
DecodeCollected ==
    /\ enc_active /\ enc_ended /\ ~dec_active
    /\ dec' = Base64Decoder_new(enc_out)
    /\ dec_active' = TRUE
    /\ UNCHANGED <<enc_vars, dec_ret, dec_out, dec_ended>>

\* the caller pulls one byte from the decoder
Base64Decoder_next ==
    /\ dec_active
    /\ LET r == Base64Decoder_step(dec)
       IN  /\ dec' = r.self
           /\ dec_ret' = r.ret
           /\ dec_out' = IF r.ret # None THEN Append(dec_out, r.ret) ELSE dec_out
           /\ dec_ended' = (dec_ended \/ r.ret = None)
    /\ UNCHANGED <<dec_active, enc_vars>>

Next == Base64Encoder_next \/ DecodeCollected \/ Base64Decoder_next

Spec == Init /\ [][Next]_vars

----------------------------------------------------------------------------
(* Reference definitions the properties are stated with: Base64 as         *)
(* RFC 4648 describes it, by table lookup and integer arithmetic.          *)

\* the standard alphabet, "ABC...XYZabc...xyz0123456789+/"
B64Alphabet ==
    <<65, 66, 67, 68, 69, 70, 71, 72, 73, 74, 75, 76, 77,
      78, 79, 80, 81, 82, 83, 84, 85, 86, 87, 88, 89, 90,
      97, 98, 99, 100, 101, 102, 103, 104, 105, 106, 107, 108, 109,
      110, 111, 112, 113, 114, 115, 116, 117, 118, 119, 120, 121, 122,
      48, 49, 50, 51, 52, 53, 54, 55, 56, 57, 43, 47>>

PadChar == 61

\* the 65 characters an encoder may produce
Alphabet65 == {B64Alphabet[i] : i \in 1..64} \cup {PadChar}

\* the characters a decoder accepts: Alphabet65, '-' and '_'
AcceptedChars == Alphabet65 \cup {45, 95}

CeilDiv(n, d) == (n + d - 1) \div d

NumChunks(v, size) == CeilDiv(Len(v), size)

\* chunk k (from 0) of v cut into chunks of size
ChunkAt(v, k, size) == SubSeq(v, k * size + 1, Min((k + 1) * size, Len(v)))

\* the byte of a chunk at position i, 0 when absent
ByteOrZero(c, i) == IF i <= Len(c) THEN c[i] ELSE 0

\* the 4 characters of a chunk of 1 to 3 bytes
RefEncodeChunk(c) ==
    LET n == ByteOrZero(c, 1) * 65536 + ByteOrZero(c, 2) * 256 + ByteOrZero(c, 3)
        g == <<(n \div 262144) % 64, (n \div 4096) % 64, (n \div 64) % 64, n % 64>>
    IN  [i \in 1..4 |-> IF i > Len(c) + 1 THEN PadChar ELSE B64Alphabet[g[i] + 1]]

RECURSIVE RefEncodeFrom(_, _)
RefEncodeFrom(v, k) ==
    IF k >= NumChunks(v, 3) THEN <<>>
    ELSE RefEncodeChunk(ChunkAt(v, k, 3)) \o RefEncodeFrom(v, k + 1)

RefEncode(v) == RefEncodeFrom(v, 0)

\* number of '=' among the last n elements of out
RECURSIVE TrailingPads(_)
TrailingPads(out) ==
    IF out = <<>> \/ out[Len(out)] # PadChar THEN 0
    ELSE 1 + TrailingPads(SubSeq(out, 1, Len(out) - 1))

PadCount(out) == Cardinality({i \in 1..Len(out) : out[i] = PadChar})

----------------------------------------------------------------------------
(* Properties of the encoder.                                              *)

\* the encoder has been drained to its first end signal
EncDrained == enc_active /\ enc_ended

\* C5: length law: an input of N bytes yields exactly 4 * ceil(N/3)
\* characters before the first end signal, 0 for N = 0; until then every
\* chunk taken has contributed at most its 4 characters.
C5_LengthLaw ==
    /\ EncDrained => Len(enc_out) = 4 * CeilDiv(Len(enc.input), 3)
    /\ enc_active => Len(enc_out) <= 4 * CeilDiv(enc.off, 3)

\* C5 witness: a drained input of two chunks, the last one partial
C5_Witness ==
    EncDrained /\ Len(enc.input) = 4 /\ Len(enc_out) = 8

\* C6: padding law: the output ends with exactly 2 '=' when N mod 3 = 1,
\* 1 when N mod 3 = 2, none when N mod 3 = 0, and '=' occurs nowhere else.
C6_PaddingLaw ==
    EncDrained =>
        LET n == Len(enc.input)
            pads == IF n % 3 = 1 THEN 2 ELSE IF n % 3 = 2 THEN 1 ELSE 0
        IN  /\ TrailingPads(enc_out) = pads
            /\ PadCount(enc_out) = pads

\* C6 witness: drained inputs with two pads after a full chunk
C6_Witness ==
    EncDrained /\ Len(enc.input) = 4 /\ TrailingPads(enc_out) = 2

\* C7: the characters pulled from the encoder are the RFC 4648 encoding of
\* the input, and the known vectors encode as documented.
C7_MatchesReference ==
    EncDrained =>
        /\ enc_out = RefEncode(enc.input)
        /\ enc.input = <<>> => enc_out = <<>>
        /\ enc.input = <<102>> => enc_out = <<90, 103, 61, 61>>
        /\ enc.input = <<102, 111>> => enc_out = <<90, 109, 56, 61>>
        /\ enc.input = <<102, 111, 111>> => enc_out = <<90, 109, 57, 118>>
        /\ enc.input = <<102, 111, 111, 98, 97, 114>>
             => enc_out = <<90, 109, 57, 118, 89, 109, 70, 121>>

\* C7 witness: "foobar" drained to "Zm9vYmFy"
C7_Witness ==
    /\ EncDrained
    /\ enc.input = <<102, 111, 111, 98, 97, 114>>
    /\ enc_out = <<90, 109, 57, 118, 89, 109, 70, 121>>

\* C10: alphabet closure: every character next() returns is one of the 65
\* characters A-Z a-z 0-9 + / =.
C10_AlphabetClosure ==
    enc_active =>
        /\ enc_ret \in Alphabet65 \cup {None, NoCall}
        /\ \A i \in 1..Len(enc_out) : enc_out[i] \in Alphabet65

\* C10 witness: the encoder has just returned '/', the character of 63
C10_Witness ==
    enc_active /\ enc_ret = 47 /\ Len(enc_out) = 4

----------------------------------------------------------------------------
(* Reference decoding, and what makes a chunk invalid.                     *)

\* a chunk is invalid when it has fewer than 4 bytes, holds a byte that is
\* not accepted, has '=' at position 0 or 1, or has '=' at position 2
\* followed by something else at position 3
ChunkInvalid(c) ==
    \/ Len(c) < 4
    \/ \E i \in 1..Len(c) : c[i] \notin AcceptedChars
    \/ c[1] = PadChar
    \/ c[2] = PadChar
    \/ c[3] = PadChar /\ c[4] # PadChar

\* the 6-bit value of a character that is not padding
RefValue(ch) ==
    IF ch = 45 THEN 62
    ELSE IF ch = 95 THEN 63
    ELSE (CHOOSE i \in 1..64 : B64Alphabet[i] = ch) - 1

\* the bytes of a valid chunk: the 24 bits of its four values, cut to the
\* whole bytes its padding leaves
RefDecodeChunk(c) ==
    LET v(i) == IF c[i] = PadChar THEN 0 ELSE RefValue(c[i])
        n == v(1) * 262144 + v(2) * 4096 + v(3) * 64 + v(4)
        all == <<n \div 65536, (n \div 256) % 256, n % 256>>
    IN  SubSeq(all, 1, 3 - PadCount(c))

\* the bytes of chunks 0 .. k-1 of v, all of them valid
RECURSIVE RefDecodePrefix(_, _)
RefDecodePrefix(v, k) ==
    IF k = 0 THEN <<>>
    ELSE RefDecodePrefix(v, k - 1) \o RefDecodeChunk(ChunkAt(v, k - 1, 4))

InvalidChunks(v) ==
    {k \in 0..(NumChunks(v, 4) - 1) : ChunkInvalid(ChunkAt(v, k, 4))}

HasInvalid(v) == InvalidChunks(v) # {}

\* the first invalid chunk of v, which has one
FirstInvalid(v) ==
    CHOOSE k \in InvalidChunks(v) : \A j \in InvalidChunks(v) : k <= j

\* number of chunks the decoder has taken from its input
Processed == CeilDiv(dec.off, 4)

\* some chunk the decoder has processed was invalid
ProcessedInvalid ==
    \E k \in 0..(Processed - 1) : ChunkInvalid(ChunkAt(dec.input, k, 4))

\* this step returns the decoder's first end signal
FirstEnd == dec_active /\ ~dec_ended /\ dec_ended'

----------------------------------------------------------------------------
(* Properties of the decoder.                                              *)

\* C1: round trip: draining the encoder over B and then a decoder over the
\* text collected yields exactly B, with status ok.
C1_RoundTrip ==
    (EncDrained /\ dec_active /\ dec_ended) =>
        /\ dec.input = enc_out
        /\ dec_out = enc.input
        /\ Base64Decoder_status(dec) = Ok

\* C1 witness: "foobar" has gone through the encoder and the decoder
C1_Witness ==
    /\ EncDrained /\ dec_active /\ dec_ended
    /\ enc.input = <<102, 111, 111, 98, 97, 114>>
    /\ dec_out = <<102, 111, 111, 98, 97, 114>>

\* C2: the status is cumulative and sticky: status() is ok exactly when
\* every chunk processed so far was valid.
C2_StatusCumulative ==
    dec_active => (Base64Decoder_status(dec) = Ok <=> ~ProcessedInvalid)

\* C3: early termination: once an invalid chunk has been processed, every
\* later next() returns None and takes no further chunk from the input.
C3_FailedIsTerminal ==
    [][(dec_active /\ ProcessedInvalid)
          => (dec_ret' = None /\ dec'.off = dec.off)]_dec_vars

\* C4: invalid detection: at the first end signal status() is error if and
\* only if some chunk of the input is invalid.
C4_InvalidDetection ==
    [][FirstEnd => (Base64Decoder_status(dec') = Err <=> HasInvalid(dec.input))]_dec_vars

\* C4 witness: "Zg==$" drained: one byte delivered, status error by the
\* ragged last chunk
C4_Witness ==
    /\ dec_active /\ dec_ended
    /\ dec.input = <<90, 103, 61, 61, 36>>
    /\ dec_out = <<102>>
    /\ Base64Decoder_status(dec) = Err

\* C8: a valid chunk stages 1, 2 or 3 bytes as it ends in two, one or no
\* '=', the bytes its 6-bit values make; an input of valid chunks only
\* decodes to the concatenation of its chunks' bytes with status ok.
C8_ValidChunkOutput ==
    dec_active =>
        /\ (Processed >= 1 /\ ~ChunkInvalid(ChunkAt(dec.input, Processed - 1, 4))) =>
              LET c == ChunkAt(dec.input, Processed - 1, 4)
              IN  /\ dec.output.len = 3 - PadCount(c)
                  /\ SubSeq(dec.output.buffer, 1, dec.output.len) = RefDecodeChunk(c)
        /\ (dec_ended /\ ~HasInvalid(dec.input)) =>
              /\ dec_out = RefDecodePrefix(dec.input, NumChunks(dec.input, 4))
              /\ Base64Decoder_status(dec) = Ok

\* C8 witness: "Zm9vZg==" decoded to "foof": a padded chunk after a full one
C8_Witness ==
    /\ dec_active /\ ~enc_active /\ dec_ended
    /\ dec.input = <<90, 109, 57, 118, 90, 103, 61, 61>>
    /\ dec_out = <<102, 111, 111, 102>>
    /\ dec.output.len = 1

\* C9: valid prefix on error: when the first invalid chunk is chunk k, the
\* bytes delivered before the first end signal are exactly the decodings of
\* chunks 0 .. k-1.
C9_ValidPrefix ==
    [][(FirstEnd /\ HasInvalid(dec.input))
          => dec_out' = RefDecodePrefix(dec.input, FirstInvalid(dec.input))]_dec_vars

\* C9 witness: "Zm9vZm$=" drained: "foo" delivered, then the end signal at
\* the invalid second chunk
C9_Witness ==
    /\ dec_active /\ dec_ended
    /\ dec.input = <<90, 109, 57, 118, 90, 109, 36, 61>>
    /\ dec.off = 8
    /\ dec_out = <<102, 111, 111>>
    /\ Base64Decoder_status(dec) = Err

----------------------------------------------------------------------------
(* The decoder's states and its status.                                    *)

\* a staged byte is still to be delivered
DecStaged == dec.output.idx < dec.output.len

\* Exhausted without error: the whole input taken, every chunk of it valid,
\* every staged byte delivered
DecExhaustedOk ==
    /\ dec.off = Len(dec.input)
    /\ ~DecStaged
    /\ ~HasInvalid(dec.input)

\* C11 as stated: status() is ok only in Exhausted reached without error,
\* and error in every other state, Streaming included.
C11_OkOnlyWhenExhausted ==
    dec_active => (Base64Decoder_status(dec) = Ok => DecExhaustedOk)

\* C11 as amended: status() is ok in every state in which no invalid chunk
\* has been processed (after construction, while Streaming, in Exhausted),
\* and error when the chunk processed last was invalid.
C11_OkUntilInvalid ==
    dec_active =>
        /\ ~ProcessedInvalid => Base64Decoder_status(dec) = Ok
        /\ (Processed >= 1 /\ ChunkInvalid(ChunkAt(dec.input, Processed - 1, 4)))
              => Base64Decoder_status(dec) = Err

\* C11 witness: Streaming over "Zm9vZg==": one chunk processed, one still
\* in the input, status ok
C11_Witness ==
    /\ dec_active /\ ~enc_active
    /\ dec.input = <<90, 109, 57, 118, 90, 103, 61, 61>>
    /\ dec.off = 4
    /\ ~dec_ended
    /\ Base64Decoder_status(dec) = Ok

----------------------------------------------------------------------------
(* Alphabets.                                                              *)

\* text with every '-' written '+' and every '_' written '/'
ToStandard(text) ==
    [i \in 1..Len(text) |->
        IF text[i] = 45 THEN 43 ELSE IF text[i] = 95 THEN 47 ELSE text[i]]

\* text with every '+' written '-' and every '/' written '_'
ToUrlSafe(text) ==
    [i \in 1..Len(text) |->
        IF text[i] = 43 THEN 45 ELSE IF text[i] = 47 THEN 95 ELSE text[i]]

\* C12: mixed alphabets are interchangeable: what a decoder delivers up to
\* its first end signal, and its status then, are those of a decoder over
\* the same text in the standard spelling and in the URL-safe spelling, so
\* all mixtures of one text decode alike.
C12_MixedAlphabets ==
    [][FirstEnd =>
         /\ [out |-> dec_out', status |-> Base64Decoder_status(dec')]
              = DrainDecoder(ToStandard(dec.input))
         /\ [out |-> dec_out', status |-> Base64Decoder_status(dec')]
              = DrainDecoder(ToUrlSafe(dec.input))]_dec_vars

\* C12 witness: the chunk "A-/_", mixing both spellings, decoded like
\* "A+//" to 03 EF FF
C12_Witness ==
    /\ dec_active /\ dec_ended
    /\ dec.input = <<65, 45, 47, 95>>
    /\ dec_out = <<3, 239, 255>>
    /\ Base64Decoder_status(dec) = Ok

----------------------------------------------------------------------------
(* Termination of the encoder.                                             *)

\* characters an encoder still has to deliver: those staged and 4 for
\* every chunk left in its input
EncRemaining(self) ==
    (Len(self.output.buffer) - self.output.idx)
    + 4 * CeilDiv(Len(self.input) - self.off, 3)

\* C13: the encoder is finite and not rewindable: every next() that
\* returns a character leaves one character less to deliver, next()
\* returns None exactly when none is left, so the end signal comes after
\* 4 * ceil(N/3) calls; after the first end signal next() returns None and
\* changes nothing; no call ends in the failure arm.
C13_EncoderFinite ==
    enc_active =>
        LET r == Base64Encoder_step(enc)
        IN  /\ EncRemaining(enc) >= 0
            /\ EncRemaining(enc) + Len(enc_out) = 4 * CeilDiv(Len(enc.input), 3)
            /\ EncRemaining(enc) = 0 => (r.ret = None /\ r.self = enc)
            /\ EncRemaining(enc) > 0 =>
                  /\ r.ret \in 0..255
                  /\ EncRemaining(r.self) = EncRemaining(enc) - 1
            /\ enc_ended => (r.ret = None /\ r.self = enc)
            /\ enc_ret # Unreachable

\* C13 witness: a two-chunk input drained, the end signal returned
C13_Witness ==
    /\ enc_active /\ enc_ended /\ enc_ret = None
    /\ Len(enc.input) = 4
    /\ EncRemaining(enc) = 0
    /\ Len(enc_out) = 8

----------------------------------------------------------------------------
(* Chunking on demand.                                                     *)

\* a staged character is still to be delivered
EncStaged == enc.output.idx < Len(enc.output.buffer)

\* a next() of the encoder: with a unit staged it returns that unit and
\* leaves the input position and the buffer alone; otherwise it takes at
\* most one chunk, and the chunk's first unit is what it returns
EncOnDemand ==
    enc_active =>
        IF EncStaged
          THEN /\ enc'.off = enc.off
               /\ enc'.output.buffer = enc.output.buffer
               /\ enc'.output.idx = enc.output.idx + 1
               /\ enc_ret' = enc.output.buffer[enc.output.idx + 1]
          ELSE /\ CeilDiv(enc'.off, 3) - CeilDiv(enc.off, 3) \in {0, 1}
               /\ enc'.off - enc.off \in 0..3
               /\ enc'.off > enc.off =>
                     (enc'.output.idx = 1 /\ enc_ret' = enc'.output.buffer[1])

\* the same of the decoder, whose chunk may be rejected
DecOnDemand ==
    dec_active =>
        IF DecStaged
          THEN /\ dec'.off = dec.off
               /\ dec'.output.buffer = dec.output.buffer
               /\ dec'.output.len = dec.output.len
               /\ dec'.output.idx = dec.output.idx + 1
               /\ dec_ret' = dec.output.buffer[dec.output.idx + 1]
          ELSE /\ CeilDiv(dec'.off, 4) - CeilDiv(dec.off, 4) \in {0, 1}
               /\ dec'.off - dec.off \in 0..4
               /\ (dec'.off > dec.off /\ Base64Decoder_status(dec') = Ok) =>
                     (dec'.output.idx = 1 /\ dec_ret' = dec'.output.buffer[1])

\* C14: strictly on-demand chunking: in both transcoders a next() takes a
\* chunk only when no staged unit is undelivered, and at most one; while
\* staged units remain it returns the next one in order and leaves the
\* input position unchanged.
C14_OnDemand ==
    [][EncOnDemand]_enc_vars /\ [][DecOnDemand]_dec_vars

\* C14 witness: after a drained encoder, a decoder in the middle of the
\* first of two chunks: one byte delivered, two staged, one chunk untaken
C14_Witness ==
    /\ EncDrained /\ dec_active
    /\ Len(dec.input) = 8
    /\ dec.off = 4
    /\ dec.output.idx = 1
    /\ dec.output.len = 3

----------------------------------------------------------------------------
(* Termination of the decoder.                                             *)

\* a bound on the calls a decoder can answer with a byte: the bytes staged
\* and 4 for every chunk left in its input (3 bytes at most, and the call
\* that takes it)
DecRemaining(self) ==
    (IF self.output.idx < self.output.len
       THEN self.output.len - self.output.idx ELSE 0)
    + 4 * CeilDiv(Len(self.input) - self.off, 4)

\* C15: Exhausted is terminal: with the whole input taken, no chunk of it
\* invalid and no byte staged, next() returns None, changes nothing, and
\* status() is ok; and every decoder reaches an end signal: each next()
\* that returns a byte lowers the bound DecRemaining, and at 0 next()
\* returns None.
C15_ExhaustedTerminal ==
    dec_active =>
        LET r == Base64Decoder_step(dec)
        IN  /\ DecExhaustedOk =>
                  /\ r.ret = None
                  /\ r.self = dec
                  /\ Base64Decoder_status(dec) = Ok
            /\ DecRemaining(dec) >= 0
            /\ DecRemaining(dec) = 0 => r.ret = None
            /\ r.ret # None =>
                  /\ r.ret \in 0..255
                  /\ DecRemaining(r.self) < DecRemaining(dec)

\* C15 witness: "Zm9vZg==" decoded to the end: Exhausted, the end signal
\* returned, status ok
C15_Witness ==
    /\ dec_active /\ ~enc_active /\ dec_ended /\ dec_ret = None
    /\ DecExhaustedOk
    /\ dec.input = <<90, 109, 57, 118, 90, 103, 61, 61>>
    /\ Len(dec_out) = 4

----------------------------------------------------------------------------
(* 8-bit arithmetic.                                                       *)

U8 == 0..255

\* every element of the sequence s is a u8
AllU8(s) == \A i \in 1..Len(s) : s[i] \in U8

\* the chunk the encoder took last
EncLastChunk == ChunkAt(enc.input, CeilDiv(enc.off, 3) - 1, 3)

\* the chunk the decoder took last
DecLastChunk == ChunkAt(dec.input, Processed - 1, 4)

\* C16: 8-bit arithmetic: the bytes a valid chunk stages are u8 values and
\* equal the spec's formulas with the left shifts cut to 8 bits; every
\* addition and subtraction that classified a character of the chunk taken
\* last, or mapped one of its 6-bit values to a character, stayed within
\* 0..255 and gave the value the match gives.
C16_EightBitArithmetic ==
    /\ (dec_active /\ Processed >= 1) =>
          /\ \A i \in 1..Len(DecLastChunk) :
                LET s == decode_symbol_steps(DecLastChunk[i])
                IN  /\ AllU8(s)
                    /\ s # <<>> => decode_symbol(DecLastChunk[i]) = Value(s[Len(s)])
          /\ ~ChunkInvalid(DecLastChunk) =>
                LET v == [i \in 1..4 |-> decode_tmp(DecLastChunk)[i].v]
                    b == dec.output.buffer
                IN  /\ \A i \in 1..4 : v[i] \in 0..63
                    /\ AllU8(b)
                    /\ b[1] = BitOr((v[1] * 4) % 256, v[2] \div 16)
                    /\ dec.output.len >= 2 =>
                          b[2] = BitOr((v[2] * 16) % 256, v[3] \div 4)
                    /\ dec.output.len >= 3 =>
                          b[3] = BitOr((v[3] * 64) % 256, v[4])
          /\ AllU8(dec_out)
    /\ (enc_active /\ enc.off >= 1) =>
          \A i \in 1..4 :
              LET u == encode_sextets(EncLastChunk)[i]
                  s == encode_sextet_steps(u)
              IN  /\ u \in 0..63
                  /\ AllU8(s)
                  /\ s # <<>> => encode_sextet(u) = s[Len(s)]
                  /\ encode_sextet(u) \in U8

\* C16 witness: "Zm9v" staged as "foo": the value 38 of 'm' shifted left by
\* 4 is 608, cut to 96 in byte 1
C16_Witness ==
    /\ dec_active /\ ~enc_active
    /\ dec.input = <<90, 109, 57, 118>>
    /\ dec.off = 4
    /\ decode_tmp(DecLastChunk)[2].v * 16 > 255
    /\ dec.output.buffer = <<102, 111, 111>>

----------------------------------------------------------------------------
(* The status field.                                                       *)

\* C17: status() is the validity of the chunk processed last, ok when none
\* has been processed; a next() that takes no chunk (it delivers a staged
\* byte or finds the input empty) leaves the status as it is.
C17_StatusOfLastChunk ==
    dec_active =>
        /\ Base64Decoder_status(dec) =
              (IF Processed = 0 THEN Ok
               ELSE IF ChunkInvalid(DecLastChunk) THEN Err ELSE Ok)
        /\ LET r == Base64Decoder_step(dec)
           IN  r.self.off = dec.off =>
                  Base64Decoder_status(r.self) = Base64Decoder_status(dec)

\* C17 witness: "Zm$=Zm9v" after its second chunk: status ok again, the
\* bytes of the second chunk being delivered
C17_Witness ==
    /\ dec_active /\ dec_ended
    /\ dec.input = <<90, 109, 36, 61, 90, 109, 57, 118>>
    /\ dec.off = 8
    /\ dec_out = <<102, 111>>
    /\ Base64Decoder_status(dec) = Ok

----------------------------------------------------------------------------
(* Absence of panics.                                                      *)

\* C18: no next() can panic: the unreachable!() arm is never taken (no
\* staged or returned character is its marker, for the chunk staged and
\* for the chunk the next call would take), the staging cursors stay
\* within idx <= 4 (encoder) and idx <= 3, len <= 3 (decoder), a staged
\* read is inside the buffer, and a chunk handed to decode_chunk has at
\* most 4 bytes.
C18_NoPanic ==
    /\ enc_active =>
          LET c == Chunks_next(enc.input, enc.off, 3)
          IN  /\ enc.output.idx \in 0..4
              /\ Len(enc.output.buffer) = 4
              /\ EncStaged => (enc.output.idx + 1) \in 1..4
              /\ \A i \in 1..4 : enc.output.buffer[i] # Unreachable
              /\ enc_ret # Unreachable
              /\ c.some =>
                    /\ Len(c.chunk) \in 1..3
                    /\ \A i \in 1..4 :
                          /\ encode_sextets(c.chunk)[i] \in 0..63
                          /\ encode_chunk(c.chunk, enc.output).buffer[i] # Unreachable
    /\ dec_active =>
          LET c == Chunks_next(dec.input, dec.off, 4)
          IN  /\ dec.output.idx \in 0..3
              /\ dec.output.len \in 0..3
              /\ Len(dec.output.buffer) = 3
              /\ DecStaged => (dec.output.idx + 1) \in 1..3
              /\ c.some => Len(c.chunk) \in 1..4

\* C18 witness: FF FF FF encoded as "////" and delivered: the 6-bit value
\* 63 in every position, the cursor at 4
C18_Witness ==
    /\ enc_active
    /\ enc.input = <<255, 255, 255>>
    /\ enc.output.buffer = <<47, 47, 47, 47>>
    /\ enc.output.idx = 4
    /\ enc_ended

----------------------------------------------------------------------------
(* Padding inside a text.                                                  *)

\* the chunk taken last is valid, ends in '=' and is followed by further
\* chunks, and no chunk before it was invalid
PaddedMidChunk ==
    /\ dec_active
    /\ Processed >= 1
    /\ Processed < NumChunks(dec.input, 4)
    /\ ~ProcessedInvalid
    /\ PadCount(DecLastChunk) >= 1

\* C19: padding is accepted in any chunk: a valid padded chunk followed by
\* further chunks stages its 2 or 1 bytes with status ok and no end
\* signal, and once they are delivered next() goes on to the following
\* chunk; "Zg==Zm9v" decodes to "ffoo" with status ok.
C19_PaddingAnywhere ==
    /\ PaddedMidChunk =>
          /\ Base64Decoder_status(dec) = Ok
          /\ ~dec_ended
          /\ dec.output.len = 3 - PadCount(DecLastChunk)
          /\ ~DecStaged => Base64Decoder_step(dec).self.off > dec.off
    /\ (dec_active /\ dec_ended
          /\ dec.input = <<90, 103, 61, 61, 90, 109, 57, 118>>) =>
          /\ dec_out = <<102, 102, 111, 111>>
          /\ Base64Decoder_status(dec) = Ok

\* C19 witness: "Zg==Zm9v" decoded to "ffoo", status ok
C19_Witness ==
    /\ dec_active /\ dec_ended
    /\ dec.input = <<90, 103, 61, 61, 90, 109, 57, 118>>
    /\ dec_out = <<102, 102, 111, 111>>
    /\ Base64Decoder_status(dec) = Ok

----------------------------------------------------------------------------
(* The unused bits of a padded chunk.                                      *)

\* a chunk with the bits its padding leaves unused set to zero: the low 4
\* bits of position 1 before "==", the low 2 bits of position 2 before "="
ClearUnused(c) ==
    IF ChunkInvalid(c) \/ PadCount(c) = 0 THEN c
    ELSE IF PadCount(c) = 2
      THEN [c EXCEPT ![2] = B64Alphabet[(RefValue(c[2]) - (RefValue(c[2]) % 16)) + 1]]
      ELSE [c EXCEPT ![3] = B64Alphabet[(RefValue(c[3]) - (RefValue(c[3]) % 4)) + 1]]

RECURSIVE ClearUnusedFrom(_, _)
ClearUnusedFrom(v, k) ==
    IF k >= NumChunks(v, 4) THEN <<>>
    ELSE ClearUnused(ChunkAt(v, k, 4)) \o ClearUnusedFrom(v, k + 1)

\* some valid padded chunk of v has an unused bit set
HasUnusedBits(v) == ClearUnusedFrom(v, 0) # ToStandard(v)

\* C20: the decoder ignores the unused low bits of a padded chunk: what it
\* delivers up to its first end signal, and its status then, are those of
\* a decoder over the text with these bits cleared; "Zh==" decodes to "f"
\* with status ok, as "Zg==" does.
C20_UnusedBitsIgnored ==
    [][FirstEnd =>
         /\ [out |-> dec_out', status |-> Base64Decoder_status(dec')]
              = DrainDecoder(ClearUnusedFrom(dec.input, 0))
         /\ dec.input = <<90, 104, 61, 61>> =>
              /\ dec_out' = <<102>>
              /\ Base64Decoder_status(dec') = Ok
              /\ DrainDecoder(<<90, 103, 61, 61>>) = [out |-> <<102>>, status |-> Ok]]_dec_vars

\* C20 witness: "Zh==", whose 'h' has the low bits 0001, decoded to "f"
C20_Witness ==
    /\ dec_active /\ dec_ended
    /\ dec.input = <<90, 104, 61, 61>>
    /\ HasUnusedBits(dec.input)
    /\ dec_out = <<102>>
    /\ Base64Decoder_status(dec) = Ok

====
